---- MODULE Spec2Model ----
(***************************************************************************)
(* Workflow execution engine of the qalam CLI (src/workflows/manager.js):  *)
(* variable substitution (replaceVariables) and the sequential / parallel  *)
(* executor (execute), over the workflow row read by Database.getWorkflow. *)
(*                                                                         *)
(* Strings are sequences of one-character strings.  A JavaScript object    *)
(* used as a variable map is a sequence of <<key, value>> entries with     *)
(* distinct keys, in the object's property (insertion) order, which is the *)
(* order Object.entries iterates in.  Keys are identifiers made of         *)
(* letters, so the RegExp built from a key matches that key literally.     *)
(***************************************************************************)
EXTENDS Integers, Sequences, FiniteSets, TLC

----------------------------------------------------------------------------
(* Bounds of the model *)

MaxParts == 4
MaxVars == 2
MaxCmds == 3
MaxStoreCmds == 2
MaxID == 2
MaxRuns == 1

----------------------------------------------------------------------------
(* Strings *)

SeqsUpTo(S, n) == UNION {[1..k -> S] : k \in 0..n}

RECURSIVE Flatten(_)
Flatten(ss) == IF ss = <<>> THEN <<>> ELSE Head(ss) \o Flatten(Tail(ss))

MatchesAt(s, pat, p) ==
    /\ p + Len(pat) - 1 <= Len(s)
    /\ SubSeq(s, p, p + Len(pat) - 1) = pat

Occurs(pat, s) == \E p \in 1..Len(s) : MatchesAt(s, pat, p)

----------------------------------------------------------------------------
(* String.prototype.replace with a global RegExp and a replacement string *)

\* GetSubstitution: the replacement text for the match of length n at
\* position p of s.  "$$" inserts "$", "$&" the match, "$`" the text before
\* the match, "$'" the text after it; the patterns built here have no
\* capture groups, so "$1".."$9" and any other "$c" are literal.
RECURSIVE GetSubstitution(_, _, _, _)
GetSubstitution(rep, s, p, n) ==
    IF rep = <<>> THEN <<>>
    ELSE IF rep[1] = "$" /\ Len(rep) >= 2 /\ rep[2] \in {"$", "&", "`", "'"}
         THEN (CASE rep[2] = "$" -> <<"$">>
                 [] rep[2] = "&" -> SubSeq(s, p, p + n - 1)
                 [] rep[2] = "`" -> SubSeq(s, 1, p - 1)
                 [] rep[2] = "'" -> SubSeq(s, p + n, Len(s)))
              \o GetSubstitution(SubSeq(rep, 3, Len(rep)), s, p, n)
         ELSE <<rep[1]>> \o GetSubstitution(Tail(rep), s, p, n)

\* s.replace(new RegExp(pat, "g"), rep) for a literal, non-empty pat: the
\* matches are found left to right without overlap, and inserted text is
\* not scanned again by the same call; without a match the string is
\* returned as it is.
RECURSIVE ReplaceFrom(_, _, _, _)
ReplaceFrom(s, pat, rep, p) ==
    IF p > Len(s) THEN <<>>
    ELSE IF MatchesAt(s, pat, p)
         THEN GetSubstitution(rep, s, p, Len(pat))
              \o ReplaceFrom(s, pat, rep, p + Len(pat))
         ELSE <<s[p]>> \o ReplaceFrom(s, pat, rep, p + 1)

ReplaceAll(s, pat, rep) ==
    IF Occurs(pat, s) THEN ReplaceFrom(s, pat, rep, 1) ELSE s

BracedPattern_NoClose(key) == <<"$", "{">> \o key

BarePattern_NoDollar(key) == key

\* the two patterns of a key: \$\{key\} and \$key
BracedPattern(key) == <<"$", "{">> \o key \o <<"}">>

BarePattern(key) == <<"$">> \o key

----------------------------------------------------------------------------
(* WorkflowManager.replaceVariables *)

\* one iteration of the for-loop: the braced form first, then the bare one
ReplaceKey(result, key, value) ==
    ReplaceAll(ReplaceAll(result, BracedPattern(key), value),
               BarePattern(key), value)

RECURSIVE replaceVariables(_, _)
replaceVariables(command, variables) ==
    IF variables = <<>> THEN command
    ELSE replaceVariables(
             ReplaceKey(command, Head(variables)[1], Head(variables)[2]),
             Tail(variables))

----------------------------------------------------------------------------
(* Variable maps *)

Keys(m) == {m[j][1] : j \in 1..Len(m)}

HasKey(m, k) == k \in Keys(m)

Lookup(m, k) == m[CHOOSE j \in 1..Len(m) : m[j][1] = k][2]

IsMap(m) == \A j1, j2 \in 1..Len(m) : m[j1][1] = m[j2][1] => j1 = j2

MapsOver(K, V, n) == {m \in SeqsUpTo(K \X V, n) : IsMap(m)}

\* object spread `...source` onto target: a key already present is
\* overwritten in place, a new key is appended
RECURSIVE Spread(_, _)
Spread(target, source) ==
    IF source = <<>> THEN target
    ELSE LET e == Head(source)
             t == IF HasKey(target, e[1])
                  THEN [j \in 1..Len(target) |->
                           IF target[j][1] = e[1] THEN e ELSE target[j]]
                  ELSE Append(target, e)
         IN  Spread(t, Tail(source))

Merge_DefaultsWin(defaults, overrides) ==
    Spread(Spread(<<>>, overrides), defaults)

\* { ...workflow.variables, ...vars }
Merge(defaults, overrides) == Spread(Spread(<<>>, defaults), overrides)

----------------------------------------------------------------------------
(* Inputs of the substitutor *)

Tokens == {<<"$", "{">>, <<"}">>, <<"$">>, <<"a">>, <<"b">>}

Templates == {Flatten(ts) : ts \in SeqsUpTo(Tokens, MaxParts)}

SubstKeys == {<<"a">>, <<"b">>, <<"a", "b">>}

SubstValues == {<<"x">>, <<"$", "b">>, <<"$", "$">>}

SubstMaps == MapsOver(SubstKeys, SubstValues, MaxVars)

(* Inputs of the executor *)

CmdTemplates == {<<"$", "{", "a", "}">>, <<"$", "b">>}

ExecKeys == {<<"a">>, <<"b">>}

ExecValues == {<<"x">>, <<"y">>}

ExecMaps == MapsOver(ExecKeys, ExecValues, MaxVars)

\* a row of the workflows table joined with its workflow_commands rows
Workflows ==
    [commands : SeqsUpTo(CmdTemplates, MaxCmds),
     parallel : BOOLEAN,
     continue_on_error : BOOLEAN,
     variables : ExecMaps,
     execution_count : {0}]

NoWorkflow ==
    [commands |-> <<>>, parallel |-> FALSE, continue_on_error |-> FALSE,
     variables |-> <<>>, execution_count |-> 0]

NoResult == [success |-> FALSE, message |-> "", n |-> 0]

\* the name the stored workflow row has, and the names execute is called with
StoredName == "deploy"

ExecNames == {"deploy", "ghost"}

NoRun == [promises |-> <<>>, dispatched |-> <<>>, console |-> <<>>,
          result |-> NoResult, vars |-> <<>>]

----------------------------------------------------------------------------
VARIABLES
    db,          \* the stored workflow row (workflows + workflow_commands)
    pc,          \* position of execute: idle, got, seq_loop, seq_wait, par_wait, done
    vars,        \* execute's argument: the run-time variables
    workflow,    \* execute's local: the row returned by getWorkflow
    variables,   \* execute's local: the merged variable map
    i,           \* the sequential loop's index (0-based)
    failed,      \* the sequential loop's flag
    promises,    \* state of executeCommand's promise per command (1-based)
    dispatched,  \* the calls of execa, in call order: [index, command]
    console,     \* failure lines written to the console: [label, reason]
    result,      \* the value execute returned
    name,        \* execute's argument: the workflow name
    first,       \* observables of the previous run, once execute is called again
    command,     \* substitutor input: the template
    substVars,   \* substitutor input: the variable map
    output,      \* substitutor output
    spc,         \* position of the substitutor run: input, once, twice
    workflows,          \* rows of the workflows table
    workflow_commands,  \* rows of the workflow_commands table
    lastID,             \* AUTOINCREMENT sequence of the workflows table
    call,               \* the last call made on the manager: [op, name, commands]
    ret,                \* what that call returned
    replaced,           \* how many command rows the last save's REPLACE deleted
    lastSaved,          \* per name, the commands of its last successful save
    optionVars,         \* CLI: options.vars, the arguments given to --vars
    cliVariables,       \* CLI: the run-time variables built from them
    cpc,                \* CLI: position of the run action: args, parsed
    dbInstance,         \* database.js: the singleton, "null" or "Database"
    initStage,          \* how far init() of that Database object has got
    callers,            \* per caller of getDatabase: position and what it got
    thisDb,             \* WorkflowManager: this.db, "null" or "Database"
    opLog,              \* the manager's operations so far: [op, db, outcome]
    reports,            \* CLI: per workflow action, the call and what was printed
    jobs,               \* kshell: per service, the shell job: [session, connected]
    timers,             \* kshell: the pending setTimeout callbacks
    sessionSeq,         \* kshell: how many shell sessions were created
    deletions,          \* kshell: the jobs deleted: [session, by]
    tasks,              \* tasks table: per id, [priority, status]
    tpc,                \* tasks next: idle, prompt, exit
    shown               \* tasks next: the tasks presented: [task, after]

execVars == <<db, pc, vars, workflow, variables, i, failed, promises,
              dispatched, console, result, name, first>>

substStateVars == <<command, substVars, output, spc>>

storeVars == <<workflows, workflow_commands, lastID, call, ret, replaced,
               lastSaved>>

cliVars == <<optionVars, cliVariables, cpc>>

dbVars == <<dbInstance, initStage, callers>>

mgrVars == <<thisDb, opLog>>

shellVars == <<jobs, timers, sessionSeq, deletions>>

taskVars == <<tasks, tpc, shown>>

restVars == <<dbVars, mgrVars, reports, shellVars, taskVars>>

otherVars == <<substStateVars, storeVars, cliVars, restVars>>

vars_all == <<execVars, substStateVars, storeVars, cliVars, restVars>>

ExecIdle ==
    /\ pc = "idle"
    /\ vars = <<>>
    /\ workflow = NoWorkflow
    /\ variables = <<>>
    /\ i = 0
    /\ failed = FALSE
    /\ promises = <<>>
    /\ dispatched = <<>>
    /\ console = <<>>
    /\ result = NoResult
    /\ name = ""
    /\ first = NoRun

SubstIdle ==
    /\ command = <<>>
    /\ substVars = <<>>
    /\ output = <<>>
    /\ spc = "off"

NoCall == [op |-> "none", name |-> "", commands |-> <<>>]

NoRow == [id |-> 0, name |-> "", parallel |-> FALSE,
          continue_on_error |-> FALSE, variables |-> <<>>,
          execution_count |-> 0, commands |-> <<>>]

StoreNames == {"deploy", "backup"}

NeverSaved == <<"never saved">>

NoReturn == [success |-> FALSE, workflow |-> NoRow]

StoreIdle ==
    /\ workflows = {}
    /\ workflow_commands = {}
    /\ lastID = 0
    /\ call = NoCall
    /\ ret = NoReturn
    /\ replaced = 0
    /\ lastSaved = [n \in StoreNames |-> NeverSaved]

CliIdle ==
    /\ optionVars = <<>>
    /\ cliVariables = <<>>
    /\ cpc = "off"

MaxCallers == 3

Callers == 1..MaxCallers

NoCaller == [pc |-> "idle", got |-> "null", stage |-> "none"]

DbIdle ==
    /\ dbInstance = "null"
    /\ initStage = "none"
    /\ callers = [c \in Callers |-> NoCaller]

MgrIdle ==
    /\ thisDb = "null"
    /\ opLog = <<>>

Services == {"api", "web"}

NoJob == [session |-> 0, connected |-> FALSE]

ShellIdle ==
    /\ jobs = [s \in Services |-> NoJob]
    /\ timers = {}
    /\ sessionSeq = 0
    /\ deletions = {}

TaskIdle ==
    /\ tasks = <<>>
    /\ tpc = "idle"
    /\ shown = <<>>

RestIdle == DbIdle /\ MgrIdle /\ reports = <<>> /\ ShellIdle /\ TaskIdle

----------------------------------------------------------------------------
(* The substitutor applied to bounded inputs *)

InitSubst ==
    /\ db = NoWorkflow
    /\ ExecIdle
    /\ StoreIdle
    /\ CliIdle
    /\ RestIdle
    /\ command \in Templates
    /\ substVars \in SubstMaps
    /\ output = <<>>
    /\ spc = "input"

\* this.replaceVariables(command, variables)
Substitute ==
    /\ spc = "input"
    /\ output' = replaceVariables(command, substVars)
    /\ spc' = "once"
    /\ UNCHANGED <<command, substVars, execVars, storeVars, cliVars,
                   restVars>>

\* replaceVariables applied to its own output
SubstituteAgain ==
    /\ spc = "once"
    /\ output' = replaceVariables(output, substVars)
    /\ spc' = "twice"
    /\ UNCHANGED <<command, substVars, execVars, storeVars, cliVars,
                   restVars>>

NextSubst == Substitute \/ SubstituteAgain

SpecSubst == InitSubst /\ [][NextSubst]_vars_all

----------------------------------------------------------------------------
(* WorkflowManager.execute *)

NumCommands == Len(workflow.commands)

\* results of Promise.allSettled, in the order of workflow.commands; the
\* reason of a rejection is the error of that command's own process,
\* identified here by the command's 0-based index
results ==
    [j \in 1..Len(promises) |-> [status |-> promises[j], reason |-> j - 1]]

IsRejected(r) == r.status = "rejected"

\* failed.forEach((r, i) => console.log(`Command ${i + 1}: ${r.reason}`))
FailureLines(failedResults) ==
    [k \in 1..Len(failedResults) |->
        [label |-> (k - 1) + 1, reason |-> failedResults[k].reason]]

Init ==
    /\ db \in Workflows
    /\ ExecIdle
    /\ SubstIdle
    /\ StoreIdle
    /\ CliIdle
    /\ RestIdle

\* execute(name, vars) up to `await this.db.getWorkflow(name)`: the row is
\* read and getWorkflow updates its execution stats
GetWorkflow ==
    /\ pc = "idle"
    /\ name' = StoredName
    /\ \E v \in ExecMaps : vars' = v
    /\ workflow' = db
    /\ db' = [db EXCEPT !.execution_count = @ + 1]
    /\ pc' = "got"
    /\ UNCHANGED <<variables, i, failed, promises, dispatched, console,
                   result, first, otherVars>>

\* without the `if (!workflow)` test: reading workflow.variables throws
WorkflowNotFound_NoCheck ==
    /\ pc = "idle"
    /\ \E n \in ExecNames \ {StoredName} : name' = n
    /\ \E v \in ExecMaps : vars' = v
    /\ pc' = "threw"
    /\ UNCHANGED <<db, workflow, variables, i, failed, promises, dispatched,
                   console, result, first, otherVars>>

\* execute(name, vars) for a name getWorkflow finds no row for: the SELECT
\* returns undefined, nothing is updated, and execute returns at once
WorkflowNotFound ==
    /\ pc = "idle"
    /\ \E n \in ExecNames \ {StoredName} : name' = n
    /\ \E v \in ExecMaps : vars' = v
    /\ result' = [success |-> FALSE, message |-> "Workflow not found", n |-> 0]
    /\ pc' = "done"
    /\ UNCHANGED <<db, workflow, variables, i, failed, promises, dispatched,
                   console, first, otherVars>>

\* an await inside the loop in place of map: only the first command is
\* in flight when the function first suspends
ParallelDispatch_FirstOnly ==
    /\ pc = "got"
    /\ workflow.parallel
    /\ variables' = Merge(workflow.variables, vars)
    /\ dispatched' =
          [j \in 1..(IF NumCommands > 0 THEN 1 ELSE 0) |->
              [index |-> j - 1,
               command |-> replaceVariables(workflow.commands[j], variables')]]
    /\ promises' = [j \in 1..NumCommands |->
                       IF j = 1 THEN "pending" ELSE "none"]
    /\ pc' = "par_wait"
    /\ UNCHANGED <<db, vars, workflow, i, failed, console, result,
                   name, first, otherVars>>

\* parallel branch: merge, then workflow.commands.map(...) calls
\* executeCommand on every substituted command before anything is awaited
ParallelDispatch ==
    /\ pc = "got"
    /\ workflow.parallel
    /\ variables' = Merge(workflow.variables, vars)
    /\ dispatched' =
          [j \in 1..NumCommands |->
              [index |-> j - 1,
               command |-> replaceVariables(workflow.commands[j], variables')]]
    /\ promises' = [j \in 1..NumCommands |-> "pending"]
    /\ pc' = "par_wait"
    /\ UNCHANGED <<db, vars, workflow, i, failed, console, result,
                   name, first, otherVars>>

\* sequential branch: merge, failed = false, i = 0
SequentialStart ==
    /\ pc = "got"
    /\ ~workflow.parallel
    /\ variables' = Merge(workflow.variables, vars)
    /\ failed' = FALSE
    /\ i' = 0
    /\ promises' = [j \in 1..NumCommands |-> "none"]
    /\ pc' = "seq_loop"
    /\ UNCHANGED <<db, vars, workflow, dispatched, console, result,
                   name, first, otherVars>>

\* executeCommand called without await: the loop goes on at once
SequentialDispatch_NoAwait ==
    /\ pc = "seq_loop"
    /\ i < NumCommands
    /\ dispatched' =
          Append(dispatched,
                 [index |-> i,
                  command |-> replaceVariables(workflow.commands[i + 1],
                                               variables)])
    /\ promises' = [promises EXCEPT ![i + 1] = "pending"]
    /\ i' = i + 1
    /\ UNCHANGED <<db, pc, vars, workflow, variables, failed, console, result,
                   name, first, otherVars>>

\* substituting against the stored defaults in place of the merged map
SequentialDispatch_StoredOnly ==
    /\ pc = "seq_loop"
    /\ i < NumCommands
    /\ dispatched' =
          Append(dispatched,
                 [index |-> i,
                  command |-> replaceVariables(workflow.commands[i + 1],
                                               workflow.variables)])
    /\ promises' = [promises EXCEPT ![i + 1] = "pending"]
    /\ pc' = "seq_wait"
    /\ UNCHANGED <<db, vars, workflow, variables, i, failed, console, result,
                   name, first, otherVars>>

\* loop body up to `await this.executeCommand(command)`
SequentialDispatch ==
    /\ pc = "seq_loop"
    /\ i < NumCommands
    /\ dispatched' =
          Append(dispatched,
                 [index |-> i,
                  command |-> replaceVariables(workflow.commands[i + 1],
                                               variables)])
    /\ promises' = [promises EXCEPT ![i + 1] = "pending"]
    /\ pc' = "seq_wait"
    /\ UNCHANGED <<db, vars, workflow, variables, i, failed, console, result,
                   name, first, otherVars>>

\* executeCommand: the external process of command j exits; a zero exit
\* fulfils the promise, anything else makes execa throw and rejects it
ProcessExit(j, ok) ==
    /\ j \in 1..Len(promises)
    /\ promises[j] = "pending"
    /\ promises' = [promises EXCEPT ![j] = IF ok THEN "fulfilled" ELSE "rejected"]
    /\ UNCHANGED <<db, pc, vars, workflow, variables, i, failed, dispatched,
                   console, result, name, first, otherVars>>

\* the await returned normally: spinner.succeed, next iteration
SequentialSucceed ==
    /\ pc = "seq_wait"
    /\ promises[i + 1] = "fulfilled"
    /\ i' = i + 1
    /\ pc' = "seq_loop"
    /\ UNCHANGED <<db, vars, workflow, variables, failed, promises,
                   dispatched, console, result, name, first, otherVars>>

\* without the try/catch: the rejection leaves execute as an exception
SequentialHalt_Rethrows ==
    /\ pc = "seq_wait"
    /\ promises[i + 1] = "rejected"
    /\ ~workflow.continue_on_error
    /\ pc' = "threw"
    /\ UNCHANGED <<db, vars, workflow, variables, i, failed, promises,
                   dispatched, console, result, name, first, otherVars>>

SequentialHalt_KeepsGoing ==
    /\ pc = "seq_wait"
    /\ promises[i + 1] = "rejected"
    /\ ~workflow.continue_on_error
    /\ console' = Append(console, [label |-> i + 1, reason |-> i])
    /\ failed' = TRUE
    /\ i' = i + 1
    /\ pc' = "seq_loop"
    /\ UNCHANGED <<db, vars, workflow, variables, promises, dispatched,
                   result, name, first, otherVars>>

\* catch, !workflow.continue_on_error: return at once
SequentialHalt ==
    /\ pc = "seq_wait"
    /\ promises[i + 1] = "rejected"
    /\ ~workflow.continue_on_error
    /\ console' = Append(console, [label |-> i + 1, reason |-> i])
    /\ result' = [success |-> FALSE,
                  message |-> "Workflow failed at command", n |-> i + 1]
    /\ pc' = "done"
    /\ UNCHANGED <<db, vars, workflow, variables, i, failed, promises,
                   dispatched, name, first, otherVars>>

SequentialContinue_FlagNotSet ==
    /\ pc = "seq_wait"
    /\ promises[i + 1] = "rejected"
    /\ workflow.continue_on_error
    /\ console' = Append(console, [label |-> i + 1, reason |-> i])
    /\ i' = i + 1
    /\ pc' = "seq_loop"
    /\ UNCHANGED <<db, vars, workflow, variables, failed, promises,
                   dispatched, result, name, first, otherVars>>

\* catch, workflow.continue_on_error: failed = true, next iteration
SequentialContinue ==
    /\ pc = "seq_wait"
    /\ promises[i + 1] = "rejected"
    /\ workflow.continue_on_error
    /\ console' = Append(console, [label |-> i + 1, reason |-> i])
    /\ failed' = TRUE
    /\ i' = i + 1
    /\ pc' = "seq_loop"
    /\ UNCHANGED <<db, vars, workflow, variables, promises, dispatched,
                   result, name, first, otherVars>>

SequentialReturn_AlwaysSuccess ==
    /\ pc = "seq_loop"
    /\ ~(i < NumCommands)
    /\ result' = [success |-> TRUE,
                  message |-> "Workflow completed successfully", n |-> 0]
    /\ pc' = "done"
    /\ UNCHANGED <<db, vars, workflow, variables, i, failed, promises,
                   dispatched, console, name, first, otherVars>>

\* after the loop
SequentialReturn ==
    /\ pc = "seq_loop"
    /\ ~(i < NumCommands)
    /\ result' = IF failed /\ workflow.continue_on_error
                 THEN [success |-> TRUE,
                       message |-> "Workflow completed with errors", n |-> 0]
                 ELSE [success |-> TRUE,
                       message |-> "Workflow completed successfully", n |-> 0]
    /\ pc' = "done"
    /\ UNCHANGED <<db, vars, workflow, variables, i, failed, promises,
                   dispatched, console, name, first, otherVars>>

\* Promise.all in place of Promise.allSettled: resumes on the first rejection
ParallelReturn_Race ==
    /\ pc = "par_wait"
    /\ \/ \E j \in 1..Len(promises) : promises[j] = "rejected"
       \/ \A j \in 1..Len(promises) : promises[j] = "fulfilled"
    /\ LET failedResults == SelectSeq(results, IsRejected)
       IN  IF Len(failedResults) > 0
           THEN /\ console' = console \o FailureLines(failedResults)
                /\ result' = [success |-> FALSE,
                              message |-> "Workflow completed with failures",
                              n |-> Len(failedResults)]
           ELSE /\ console' = console
                /\ result' = [success |-> TRUE,
                              message |-> "Workflow completed successfully",
                              n |-> 0]
    /\ pc' = "done"
    /\ UNCHANGED <<db, vars, workflow, variables, i, failed, promises,
                   dispatched, name, first, otherVars>>

\* the error policy consulted in the parallel branch as well
ParallelReturn_ConsultsPolicy ==
    /\ pc = "par_wait"
    /\ \A j \in 1..Len(promises) : promises[j] # "pending"
    /\ LET failedResults == SelectSeq(results, IsRejected)
       IN  IF Len(failedResults) > 0 /\ ~workflow.continue_on_error
           THEN /\ console' = console \o FailureLines(failedResults)
                /\ result' = [success |-> FALSE,
                              message |-> "Workflow completed with failures",
                              n |-> Len(failedResults)]
           ELSE /\ console' = console
                /\ result' = [success |-> TRUE,
                              message |-> "Workflow completed successfully",
                              n |-> 0]
    /\ pc' = "done"
    /\ UNCHANGED <<db, vars, workflow, variables, i, failed, promises,
                   dispatched, name, first, otherVars>>

\* resuming only when every promise is fulfilled: a rejection leaves the
\* await pending for ever
ParallelReturn_OnlyFulfilled ==
    /\ pc = "par_wait"
    /\ \A j \in 1..Len(promises) : promises[j] = "fulfilled"
    /\ console' = console
    /\ result' = [success |-> TRUE,
                  message |-> "Workflow completed successfully", n |-> 0]
    /\ pc' = "done"
    /\ UNCHANGED <<db, vars, workflow, variables, i, failed, promises,
                   dispatched, name, first, otherVars>>

\* `await Promise.allSettled(promises)` resumes once no promise is pending
ParallelReturn ==
    /\ pc = "par_wait"
    /\ \A j \in 1..Len(promises) : promises[j] # "pending"
    /\ LET failedResults == SelectSeq(results, IsRejected)
       IN  IF Len(failedResults) > 0
           THEN /\ console' = console \o FailureLines(failedResults)
                /\ result' = [success |-> FALSE,
                              message |-> "Workflow completed with failures",
                              n |-> Len(failedResults)]
           ELSE /\ console' = console
                /\ result' = [success |-> TRUE,
                              message |-> "Workflow completed successfully",
                              n |-> 0]
    /\ pc' = "done"
    /\ UNCHANGED <<db, vars, workflow, variables, i, failed, promises,
                   dispatched, name, first, otherVars>>

Next ==
    \/ GetWorkflow
    \/ WorkflowNotFound
    \/ ParallelDispatch
    \/ SequentialStart
    \/ SequentialDispatch
    \/ \E j \in 1..MaxCmds, ok \in BOOLEAN : ProcessExit(j, ok)
    \/ SequentialSucceed
    \/ SequentialHalt
    \/ SequentialContinue
    \/ SequentialReturn
    \/ ParallelReturn

Spec == Init /\ [][Next]_vars_all

\* the steps execute takes by itself: the continuations of its awaits
ExecuteStep ==
    \/ ParallelDispatch
    \/ SequentialStart
    \/ SequentialDispatch
    \/ SequentialSucceed
    \/ SequentialHalt
    \/ SequentialContinue
    \/ SequentialReturn
    \/ ParallelReturn

\* a stored workflow without default variables
InitLive ==
    /\ db \in {w \in Workflows : w.variables = <<>>}
    /\ ExecIdle
    /\ SubstIdle
    /\ StoreIdle
    /\ CliIdle
    /\ RestIdle

\* the event loop runs every continuation that is ready, and every
\* dispatched external process exits
SpecLive ==
    /\ InitLive
    /\ [][Next]_vars_all
    /\ WF_vars_all(ExecuteStep)
    /\ WF_vars_all(\E j \in 1..MaxCmds, ok \in BOOLEAN : ProcessExit(j, ok))

----------------------------------------------------------------------------
(* Database.saveWorkflow / getWorkflow behind WorkflowManager.save / get *)

StoreCommandLists == SeqsUpTo(CmdTemplates, MaxStoreCmds)

RejectedCommandLists == SeqsUpTo(CmdTemplates, 1)

\* the options of `workflow create`: no --parallel, no --continue, no vars
StoreOptions ==
    {[parallel |-> FALSE, continueOnError |-> FALSE, variables |-> <<>>]}

\* SELECT * FROM workflows WHERE name = ?  (name is UNIQUE)
RowsNamed(n) == {w \in workflows : w.name = n}

\* SELECT command FROM workflow_commands WHERE workflow_id = ?
\* ORDER BY order_index
RECURSIVE OrderByIndex(_)
OrderByIndex(rows) ==
    IF rows = {} THEN <<>>
    ELSE LET r == CHOOSE x \in rows :
                      \A y \in rows : x.order_index <= y.order_index
         IN  <<r.command>> \o OrderByIndex(rows \ {r})

CommandsOf(id) ==
    OrderByIndex({c \in workflow_commands : c.workflow_id = id})

\* the object getWorkflow returns for a row
WithCommands(w) ==
    [id |-> w.id, name |-> w.name, parallel |-> w.parallel,
     continue_on_error |-> w.continue_on_error, variables |-> w.variables,
     execution_count |-> w.execution_count, commands |-> CommandsOf(w.id)]

InsertCommands_SkipsFirst(workflowId, commands) ==
    {[workflow_id |-> workflowId, command |-> commands[k + 1],
      order_index |-> k] : k \in 1..Len(commands) - 1}

\* for (let i = 0; i < commands.length; i++) INSERT INTO workflow_commands
InsertCommands(workflowId, commands) ==
    {[workflow_id |-> workflowId, command |-> commands[k + 1],
      order_index |-> k] : k \in 0..Len(commands) - 1}

InitStore ==
    /\ db = NoWorkflow
    /\ ExecIdle
    /\ SubstIdle
    /\ StoreIdle
    /\ CliIdle
    /\ RestIdle

\* save(name, commands, options) with a name and a commands array; then
\* saveWorkflow in one transaction: INSERT OR REPLACE deletes a row of the
\* same name (its workflow_commands go with it, ON DELETE CASCADE) and
\* inserts a new row under the next AUTOINCREMENT id; result.lastID is that
\* id, so the `if (!workflowId)` block is skipped; the commands are inserted
SaveWorkflow(n, commands, options) ==
    /\ lastID < MaxID
    /\ LET old == RowsNamed(n)
           oldIds == {w.id : w \in old}
           workflowId == lastID + 1
       IN  /\ workflows' =
                 (workflows \ old) \cup
                 {[id |-> workflowId, name |-> n,
                   parallel |-> options.parallel,
                   continue_on_error |-> options.continueOnError,
                   variables |-> options.variables,
                   execution_count |-> 0]}
           /\ workflow_commands' =
                 {c \in workflow_commands : c.workflow_id \notin oldIds}
                 \cup InsertCommands(workflowId, commands)
           /\ lastID' = workflowId
           /\ replaced' =
                 Cardinality({c \in workflow_commands :
                                  c.workflow_id \in oldIds})
    /\ call' = [op |-> "save", name |-> n, commands |-> commands]
    /\ ret' = [success |-> TRUE, workflow |-> NoRow]
    /\ lastSaved' = [lastSaved EXCEPT ![n] = commands]
    /\ UNCHANGED <<execVars, substStateVars, cliVars, restVars>>

\* save with an empty name: `!name || !commands` returns the error at once
SaveRejected(commands) ==
    /\ call' = [op |-> "save", name |-> "", commands |-> commands]
    /\ ret' = [success |-> FALSE, workflow |-> NoRow]
    /\ UNCHANGED <<workflows, workflow_commands, lastID, replaced, lastSaved,
                   execVars, substStateVars, cliVars, restVars>>

\* get(name) for a stored name: getWorkflow reads the row and its commands,
\* then updates the row's execution stats
GetFound(n) ==
    /\ RowsNamed(n) # {}
    /\ LET w == CHOOSE x \in RowsNamed(n) : TRUE
       IN  /\ w.execution_count < MaxRuns
           /\ ret' = [success |-> TRUE, workflow |-> WithCommands(w)]
           /\ workflows' =
                 (workflows \ {w}) \cup
                 {[w EXCEPT !.execution_count = @ + 1]}
    /\ call' = [op |-> "get", name |-> n, commands |-> <<>>]
    /\ UNCHANGED <<workflow_commands, lastID, replaced, lastSaved,
                   execVars, substStateVars, cliVars, restVars>>

\* get(name) for a name that is not stored
GetMissing(n) ==
    /\ RowsNamed(n) = {}
    /\ ret' = [success |-> FALSE, workflow |-> NoRow]
    /\ call' = [op |-> "get", name |-> n, commands |-> <<>>]
    /\ UNCHANGED <<workflows, workflow_commands, lastID, replaced, lastSaved,
                   execVars, substStateVars, cliVars, restVars>>

NextStore ==
    \/ \E n \in StoreNames, commands \in StoreCommandLists,
          options \in StoreOptions : SaveWorkflow(n, commands, options)
    \/ \E commands \in RejectedCommandLists : SaveRejected(commands)
    \/ \E n \in StoreNames : GetFound(n)
    \/ \E n \in StoreNames : GetMissing(n)

SpecStore == InitStore /\ [][NextStore]_vars_all

----------------------------------------------------------------------------
(* Two parallel runs of workflows that differ only in continue_on_error *)

InitPair ==
    /\ db \in {w \in Workflows : w.parallel}
    /\ ExecIdle
    /\ SubstIdle
    /\ StoreIdle
    /\ CliIdle
    /\ RestIdle

\* the first run's call and process exits
FirstCall == first = NoRun /\ GetWorkflow

FirstExit(j, ok) == first = NoRun /\ ProcessExit(j, ok)

\* the first run has returned: its observables are kept, the stored
\* workflow is replaced by one that differs in continue_on_error only, and
\* the manager is ready for the next call of execute
OtherPolicy ==
    /\ pc = "done"
    /\ first = NoRun
    /\ first' = [promises |-> promises, dispatched |-> dispatched,
                 console |-> console, result |-> result, vars |-> vars]
    /\ db' = [db EXCEPT !.continue_on_error = ~@]
    /\ pc' = "idle"
    /\ vars' = <<>>
    /\ workflow' = NoWorkflow
    /\ variables' = <<>>
    /\ i' = 0
    /\ failed' = FALSE
    /\ promises' = <<>>
    /\ dispatched' = <<>>
    /\ console' = <<>>
    /\ result' = NoResult
    /\ name' = ""
    /\ UNCHANGED otherVars

\* the second run: execute called with the same run-time variables, and
\* each command's process exiting as it did in the first run
SecondCall == first # NoRun /\ GetWorkflow /\ vars' = first.vars

SecondExit(j) ==
    /\ first # NoRun
    /\ j \in 1..Len(first.promises)
    /\ ProcessExit(j, first.promises[j] = "fulfilled")

NextPair ==
    \/ FirstCall
    \/ \E j \in 1..MaxCmds, ok \in BOOLEAN : FirstExit(j, ok)
    \/ ParallelDispatch
    \/ ParallelReturn
    \/ OtherPolicy
    \/ SecondCall
    \/ \E j \in 1..MaxCmds : SecondExit(j)

SpecPair == InitPair /\ [][NextPair]_vars_all

----------------------------------------------------------------------------
(* getDatabase and Database.init (core/database.js) under concurrent callers *)

\* init(): mkdir, open (this.db is set), PRAGMA foreign_keys, createTables;
\* each is awaited, "constructed" is the object before the first completes
InitStages == <<"constructed", "mkdir", "open", "pragma", "tables">>

StageIndex(stage) == CHOOSE k \in 1..Len(InitStages) : InitStages[k] = stage

InitDb ==
    /\ db = NoWorkflow
    /\ ExecIdle
    /\ SubstIdle
    /\ StoreIdle
    /\ CliIdle
    /\ RestIdle

\* getDatabase() with dbInstance null: the Database is constructed and
\* assigned, init() is called and the caller suspends at `await`
GetDatabaseFirst(c) ==
    /\ callers[c].pc = "idle"
    /\ dbInstance = "null"
    /\ dbInstance' = "Database"
    /\ initStage' = "constructed"
    /\ callers' = [callers EXCEPT ![c].pc = "init"]
    /\ UNCHANGED <<execVars, substStateVars, storeVars, cliVars, mgrVars, reports, shellVars, taskVars>>

\* getDatabase() with dbInstance set: `return dbInstance` at once, whatever
\* init() of that object has reached
GetDatabaseAgain(c) ==
    /\ callers[c].pc = "idle"
    /\ dbInstance # "null"
    /\ callers' = [callers EXCEPT ![c] = [pc |-> "returned",
                                          got |-> dbInstance,
                                          stage |-> initStage]]
    /\ UNCHANGED <<dbInstance, initStage, execVars, substStateVars,
                   storeVars, cliVars, mgrVars, reports, shellVars, taskVars>>

\* the next awaited operation of init() completes
InitStep ==
    /\ initStage \in {"constructed", "mkdir", "open", "pragma"}
    /\ initStage' = InitStages[StageIndex(initStage) + 1]
    /\ UNCHANGED <<dbInstance, callers, execVars, substStateVars, storeVars,
                   cliVars, mgrVars, reports, shellVars, taskVars>>

\* init() has returned: the caller that constructed the object resumes
GetDatabaseReturn(c) ==
    /\ callers[c].pc = "init"
    /\ initStage = "tables"
    /\ callers' = [callers EXCEPT ![c] = [pc |-> "returned",
                                          got |-> dbInstance,
                                          stage |-> initStage]]
    /\ UNCHANGED <<dbInstance, initStage, execVars, substStateVars,
                   storeVars, cliVars, mgrVars, reports, shellVars, taskVars>>

NextDb ==
    \/ \E c \in Callers : GetDatabaseFirst(c)
    \/ \E c \in Callers : GetDatabaseAgain(c)
    \/ InitStep
    \/ \E c \in Callers : GetDatabaseReturn(c)

SpecDb == InitDb /\ [][NextDb]_vars_all

----------------------------------------------------------------------------
(* The database handle of a WorkflowManager, from its construction *)

MaxOps == 2

\* the operations that open with `await this.init()`
InitOps == {"save", "get", "execute", "list", "show", "remove", "search",
            "duplicate", "export"}

\* the operations that call this.db.listWorkflows() outside a try block
BareOps == {"interactiveEdit", "interactiveDelete", "interactiveExport"}

InitMgr ==
    /\ db = NoWorkflow
    /\ ExecIdle
    /\ SubstIdle
    /\ StoreIdle
    /\ CliIdle
    /\ RestIdle

\* init(): if (!this.db) this.db = await getDatabase(); then the operation's
\* call of this.db
CallWithInit(op) ==
    /\ Len(opLog) < MaxOps
    /\ thisDb' = IF thisDb = "null" THEN "Database" ELSE thisDb
    /\ opLog' = Append(opLog, [op |-> op, db |-> thisDb', outcome |-> "ok"])
    /\ UNCHANGED <<execVars, substStateVars, storeVars, cliVars, dbVars, reports, shellVars, taskVars>>

\* interactiveList(): this.db.listWorkflows() inside try, without init();
\* on a null handle the TypeError is caught and returned as a failure
InteractiveList ==
    /\ Len(opLog) < MaxOps
    /\ opLog' = Append(opLog,
                       [op |-> "interactiveList", db |-> thisDb,
                        outcome |-> IF thisDb = "null" THEN "failed"
                                    ELSE "ok"])
    /\ UNCHANGED <<thisDb, execVars, substStateVars, storeVars, cliVars,
                   dbVars, reports, shellVars, taskVars>>

\* interactiveEdit / Delete / Export: this.db.listWorkflows() without
\* init() and without try; on a null handle the TypeError leaves the call
InteractiveBare(op) ==
    /\ Len(opLog) < MaxOps
    /\ opLog' = Append(opLog,
                       [op |-> op, db |-> thisDb,
                        outcome |-> IF thisDb = "null" THEN "threw"
                                    ELSE "ok"])
    /\ UNCHANGED <<thisDb, execVars, substStateVars, storeVars, cliVars,
                   dbVars, reports, shellVars, taskVars>>

NextMgr ==
    \/ \E op \in InitOps : CallWithInit(op)
    \/ InteractiveList
    \/ \E op \in BareOps : InteractiveBare(op)

SpecMgr == InitMgr /\ [][NextMgr]_vars_all

----------------------------------------------------------------------------
(* manageWorkflow (index.js): what the CLI prints for a workflow action *)

MaxReports == 2

\* the actions whose handler uses the manager's return value without await
UnawaitedActions == {"create", "show", "remove", "search", "duplicate"}

InitReport ==
    /\ db = NoWorkflow
    /\ ExecIdle
    /\ SubstIdle
    /\ StoreIdle
    /\ CliIdle
    /\ RestIdle

\* create / show / remove / search / duplicate: `result` is the promise the
\* async method returned; result.success is undefined, so the failure
\* branch prints, with result.message undefined, while the call is pending
ReportUnawaited(a) ==
    /\ Len(reports) < MaxReports
    /\ reports' = Append(reports,
                         [action |-> a, call |-> "pending",
                          marker |-> "failure", message |-> "undefined",
                          printedAt |-> "pending"])
    /\ UNCHANGED <<execVars, substStateVars, storeVars, cliVars, dbVars,
                   mgrVars, shellVars, taskVars>>

\* the manager's call settles: it returns {success, message}
CallSettles(k, ok) ==
    /\ k \in 1..Len(reports)
    /\ reports[k].call = "pending"
    /\ reports' = [reports EXCEPT ![k].call = IF ok THEN "success"
                                               ELSE "failure"]
    /\ UNCHANGED <<execVars, substStateVars, storeVars, cliVars, dbVars,
                   mgrVars, shellVars, taskVars>>

\* run: `const result = await this.workflowManager.execute(...)`; the
\* failure line is printed only for !result.success
ReportRun(ok) ==
    /\ Len(reports) < MaxReports
    /\ reports' = Append(reports,
                         IF ok
                         THEN [action |-> "run", call |-> "success",
                               marker |-> "none", message |-> "none",
                               printedAt |-> "success"]
                         ELSE [action |-> "run", call |-> "failure",
                               marker |-> "failure", message |-> "message",
                               printedAt |-> "failure"])
    /\ UNCHANGED <<execVars, substStateVars, storeVars, cliVars, dbVars,
                   mgrVars, shellVars, taskVars>>

NextReport ==
    \/ \E a \in UnawaitedActions : ReportUnawaited(a)
    \/ \E k \in 1..MaxReports, ok \in BOOLEAN : CallSettles(k, ok)
    \/ \E ok \in BOOLEAN : ReportRun(ok)

SpecReport == InitReport /\ [][NextReport]_vars_all

----------------------------------------------------------------------------
(* KShellSkill: shell jobs of a service and their duration-based cleanup *)

MaxSessions == 3

InitShell ==
    /\ db = NoWorkflow
    /\ ExecIdle
    /\ SubstIdle
    /\ StoreIdle
    /\ CliIdle
    /\ RestIdle

\* scheduleCleanup(service, duration): setTimeout with a callback that
\* closes over the service name; the handle is not kept
scheduleCleanup(service, session) ==
    timers \cup {[service |-> service, session |-> session]}

\* deleteShell(service): kubectl delete job/<service>-shell-manual-<user>;
\* the job is named by the service, whatever session created it
deleteShell(service, cause, timer) ==
    /\ jobs' = [jobs EXCEPT ![service] = NoJob]
    /\ deletions' = deletions \cup {[session |-> jobs[service].session,
                                      cause |-> cause, timer |-> timer]}

\* smartShell with no existing job: createShellWithJustification creates
\* the job, schedules the cleanup when opts.duration is given, and
\* connectToShell follows unless opts.async
CreateShell(service, duration, async) ==
    /\ jobs[service] = NoJob
    /\ sessionSeq < MaxSessions
    /\ sessionSeq' = sessionSeq + 1
    /\ jobs' = [jobs EXCEPT ![service] = [session |-> sessionSeq + 1,
                                          connected |-> ~async]]
    /\ timers' = IF duration THEN scheduleCleanup(service, sessionSeq + 1)
                 ELSE timers
    /\ UNCHANGED <<deletions, execVars, substStateVars, storeVars, cliVars,
                   dbVars, mgrVars, reports, taskVars>>

\* smartShell finds the job and the user reconnects
Reconnect(service) ==
    /\ jobs[service] # NoJob
    /\ ~jobs[service].connected
    /\ jobs' = [jobs EXCEPT ![service].connected = TRUE]
    /\ UNCHANGED <<timers, sessionSeq, deletions, execVars, substStateVars,
                   storeVars, cliVars, dbVars, mgrVars, reports, taskVars>>

\* smartShell finds the job and the user declines to reconnect: the old job
\* is deleted and a new session is created
ReplaceShell(service, duration, async) ==
    /\ jobs[service] # NoJob
    /\ ~jobs[service].connected
    /\ sessionSeq < MaxSessions
    /\ sessionSeq' = sessionSeq + 1
    /\ deletions' = deletions \cup {[session |-> jobs[service].session,
                                      cause |-> "replace", timer |-> 0]}
    /\ jobs' = [jobs EXCEPT ![service] = [session |-> sessionSeq + 1,
                                          connected |-> ~async]]
    /\ timers' = IF duration THEN scheduleCleanup(service, sessionSeq + 1)
                 ELSE timers
    /\ UNCHANGED <<execVars, substStateVars, storeVars, cliVars, dbVars,
                   mgrVars, reports, taskVars>>

\* handleDisconnect: with autoCleanup and the user's consent the job is
\* deleted; the timer of the session is left pending
Disconnect(service, cleanup) ==
    /\ jobs[service].connected
    /\ IF cleanup
       THEN deleteShell(service, "disconnect", 0)
       ELSE /\ jobs' = [jobs EXCEPT ![service].connected = FALSE]
            /\ UNCHANGED deletions
    /\ UNCHANGED <<timers, sessionSeq, execVars, substStateVars, storeVars,
                   cliVars, dbVars, mgrVars, reports, taskVars>>

\* the callback of scheduleCleanup runs: deleteShell(service); kubectl
\* fails when no job of that name exists
TimerFires(t) ==
    /\ t \in timers
    /\ timers' = timers \ {t}
    /\ IF jobs[t.service] # NoJob
       THEN deleteShell(t.service, "timer", t.session)
       ELSE UNCHANGED <<jobs, deletions>>
    /\ UNCHANGED <<sessionSeq, execVars, substStateVars, storeVars, cliVars,
                   dbVars, mgrVars, reports, taskVars>>

NextShell ==
    \/ \E s \in Services, duration \in BOOLEAN, async \in BOOLEAN :
          CreateShell(s, duration, async)
    \/ \E s \in Services : Reconnect(s)
    \/ \E s \in Services, duration \in BOOLEAN, async \in BOOLEAN :
          ReplaceShell(s, duration, async)
    \/ \E s \in Services, cleanup \in BOOLEAN : Disconnect(s, cleanup)
    \/ \E s \in Services, n \in 1..MaxSessions :
          TimerFires([service |-> s, session |-> n])

SpecShell == InitShell /\ [][NextShell]_vars_all

----------------------------------------------------------------------------
(* TasksSkill.nextTask: `tasks next` and its quick actions *)

MaxTasks == 3

MaxShown == 3

Priorities == 1..3

\* the rows of the tasks table: the id is the position, and created_at
\* grows with the id
TaskTables ==
    UNION {[1..n -> [priority : Priorities, status : {"pending"}]] :
           n \in 0..MaxTasks}

PendingIds(tbl) == {t \in 1..Len(tbl) : tbl[t].status = "pending"}

\* ORDER BY priority ASC, created_at ASC
Before(tbl, t, u) ==
    \/ tbl[t].priority < tbl[u].priority
    \/ tbl[t].priority = tbl[u].priority /\ t <= u

RECURSIVE OrderTasks(_, _)
OrderTasks(tbl, ids) ==
    IF ids = {} THEN <<>>
    ELSE LET t == CHOOSE x \in ids : \A u \in ids : Before(tbl, x, u)
         IN  <<t>> \o OrderTasks(tbl, ids \ {t})

\* SELECT * FROM tasks WHERE status = 'pending' ORDER BY ... LIMIT 5
PendingQuery(tbl) ==
    LET all == OrderTasks(tbl, PendingIds(tbl))
    IN  SubSeq(all, 1, IF Len(all) < 5 THEN Len(all) ELSE 5)

InitTasks ==
    /\ db = NoWorkflow
    /\ ExecIdle
    /\ SubstIdle
    /\ StoreIdle
    /\ CliIdle
    /\ DbIdle
    /\ MgrIdle
    /\ reports = <<>>
    /\ ShellIdle
    /\ tasks \in TaskTables
    /\ tpc = "idle"
    /\ shown = <<>>

\* the body of nextTask up to the prompt, on the table tbl: with no pending
\* task it returns, otherwise tasks[0] is presented with up to three
\* tasks coming up; params is not read
nextTask(tbl, params) ==
    LET found == PendingQuery(tbl)
    IN  IF found = <<>>
        THEN /\ tpc' = "exit"
             /\ shown' = shown
        ELSE /\ tpc' = "prompt"
             /\ shown' = Append(shown,
                                [task |-> found[1],
                                 coming |-> SubSeq(found, 2,
                                                   IF Len(found) < 4
                                                   THEN Len(found) ELSE 4),
                                 after |-> params])

\* `qalam tasks next`
TasksNext ==
    /\ tpc = "idle"
    /\ nextTask(tasks, "none")
    /\ UNCHANGED <<tasks, execVars, substStateVars, storeVars, cliVars,
                   dbVars, mgrVars, reports, shellVars>>

\* 'done': markDone([next.task]) completes the pending task matching the
\* text of the presented one (task texts are distinct and none contains
\* another), then nextTask([])
ChooseDone ==
    /\ tpc = "prompt"
    /\ Len(shown) < MaxShown
    /\ tasks' = [tasks EXCEPT ![shown[Len(shown)].task].status = "completed"]
    /\ nextTask(tasks', "done")
    /\ UNCHANGED <<execVars, substStateVars, storeVars, cliVars, dbVars,
                   mgrVars, reports, shellVars>>

\* 'skip': nextTask(['skip']); the table is not written
ChooseSkip ==
    /\ tpc = "prompt"
    /\ Len(shown) < MaxShown
    /\ nextTask(tasks, "skip")
    /\ UNCHANGED <<tasks, execVars, substStateVars, storeVars, cliVars,
                   dbVars, mgrVars, reports, shellVars>>

\* 'start', 'list', 'exit': nextTask returns without presenting again
ChooseLeave ==
    /\ tpc = "prompt"
    /\ tpc' = "exit"
    /\ UNCHANGED <<tasks, shown, execVars, substStateVars, storeVars,
                   cliVars, dbVars, mgrVars, reports, shellVars>>

NextTasks == TasksNext \/ ChooseDone \/ ChooseSkip \/ ChooseLeave

SpecTasks == InitTasks /\ [][NextTasks]_vars_all

----------------------------------------------------------------------------
(* Properties of the substitutor, checked under SpecSubst *)

\* the placeholder texts of a name, as written in a template
BracedForm(varName) == <<"$", "{">> \o varName \o <<"}">>

BareForm(varName) == <<"$">> \o varName

HasPlaceholder(s, k) == Occurs(BracedForm(k), s) \/ Occurs(BareForm(k), s)

NoPlaceholders(s, m) == \A k \in Keys(m) : ~HasPlaceholder(s, k)

\* C7: substitution is total: for each key x of the map the output of
\* replaceVariables contains neither ${x} nor $x, and a template that is a
\* placeholder of x yields the literal value of x.
C7_SubstitutionTotal ==
    spc = "once" =>
        \A j \in 1..Len(substVars) :
            LET x == substVars[j][1]
                value == substVars[j][2]
            IN  /\ ~HasPlaceholder(output, x)
                /\ command \in {BracedForm(x), BareForm(x)}
                      => output = value

C21_InsertedTextNotRescanned ==
    LET a == <<"a">>
        b == <<"b">>
    IN  (/\ spc = "once"
         /\ Keys(substVars) = {a, b}
         /\ \/ Occurs(BracedForm(b), Lookup(substVars, a))
            \/ Occurs(BareForm(b), Lookup(substVars, a))
         /\ HasPlaceholder(command, a)) =>
            Occurs(Lookup(substVars, a), output)

Letters == {"a", "b"}

\* C22: a bare placeholder $missing whose name is not a key of the map is
\* passed through, also when a key of the map is a proper prefix of the
\* name: the output is the substituted text before it, the unchanged
\* $missing, and the substituted text after it.
C22_BarePassThrough ==
    spc = "once" =>
        \A missing \in SubstKeys \ Keys(substVars) :
            \A p \in 1..Len(command) :
                LET q == p + Len(missing) + 1
                IN  (/\ MatchesAt(command, BareForm(missing), p)
                     /\ q <= Len(command) => command[q] \notin Letters) =>
                        output =
                            replaceVariables(SubSeq(command, 1, p - 1),
                                             substVars)
                            \o BareForm(missing)
                            \o replaceVariables(
                                   SubSeq(command, q, Len(command)),
                                   substVars)

----------------------------------------------------------------------------
(* Properties of the executor, checked under Spec *)

Found == name = StoredName

Started == Found /\ pc \notin {"idle", "got"}

Rejected == {j \in 1..Len(promises) : promises[j] = "rejected"}

Fulfilled == {j \in 1..Len(promises) : promises[j] = "fulfilled"}

DispatchedIndexes == {dispatched[d].index : d \in 1..Len(dispatched)}

InOrder == \A d \in 1..Len(dispatched) : dispatched[d].index = d - 1

CompletedSuccessfully ==
    [success |-> TRUE, message |-> "Workflow completed successfully", n |-> 0]

CompletedWithErrors ==
    [success |-> TRUE, message |-> "Workflow completed with errors", n |-> 0]

\* C1: sequential, continue_on_error false: once the command at index k has
\* failed, exactly the commands 0..k have been dispatched, nothing is
\* dispatched later, the run is at its return, and the value returned is the
\* failure "Workflow failed at command k+1".
C1_SequentialHalt ==
    (Started /\ ~workflow.parallel /\ ~workflow.continue_on_error) =>
        \A k \in 0..NumCommands - 1 :
            promises[k + 1] = "rejected" =>
                /\ DispatchedIndexes = 0..k
                /\ Len(dispatched) = k + 1
                /\ pc \in {"seq_wait", "done"}
                /\ pc = "done" =>
                      result = [success |-> FALSE,
                                message |-> "Workflow failed at command",
                                n |-> k + 1]

C1_Witness ==
    /\ pc = "done"
    /\ ~workflow.parallel /\ ~workflow.continue_on_error
    /\ promises = <<"fulfilled", "rejected", "none">>
    /\ Len(dispatched) = 2
    /\ result.n = 2

\* C2: sequential, continue_on_error true: the finished run has dispatched
\* every command, in order; with at least one failure and at least one
\* success it returns "completed with errors", and with no failure
\* "completed successfully", which are different values.
C2_SequentialContinue ==
    (pc = "done" /\ ~workflow.parallel /\ workflow.continue_on_error) =>
        /\ Len(dispatched) = NumCommands
        /\ InOrder
        /\ (Rejected # {} /\ Fulfilled # {}) => result = CompletedWithErrors
        /\ Rejected = {} => result = CompletedSuccessfully
        /\ CompletedWithErrors # CompletedSuccessfully

C2_Witness ==
    /\ pc = "done"
    /\ ~workflow.parallel /\ workflow.continue_on_error
    /\ promises = <<"fulfilled", "rejected", "fulfilled">>
    /\ Len(dispatched) = 3
    /\ result = CompletedWithErrors

\* C3: parallel: every command is dispatched before anything is awaited,
\* all of them have settled when the result is built, and the result counts
\* the failures among all of them.
C3_ParallelNoShortCircuit ==
    (Started /\ workflow.parallel) =>
        /\ DispatchedIndexes = 0..NumCommands - 1
        /\ Len(dispatched) = NumCommands
        /\ pc = "done" =>
              /\ Rejected \cup Fulfilled = 1..NumCommands
              /\ result.success = (Rejected = {})
              /\ result.n = Cardinality(Rejected)

C3_Witness ==
    /\ pc = "done"
    /\ workflow.parallel
    /\ promises = <<"rejected", "fulfilled", "fulfilled">>
    /\ result.n = 1

\* C4: a failure reported for position n (shown 1-based, as n + 1) is the
\* failure of the command at 0-based index n, in every mode.
C4_FailurePosition ==
    /\ \A k \in 1..Len(console) : console[k].label - 1 = console[k].reason
    /\ (pc = "done" /\ result.message = "Workflow failed at command")
          => promises[result.n] = "rejected"

\* C5: when every command succeeds the run returns "completed successfully"
\* and reports no failure, in every mode; and it returns that value only if
\* every command of the workflow ran and succeeded.
C5_AllSuccess ==
    (pc = "done" /\ Found) =>
        /\ Fulfilled = 1..NumCommands
              => (result = CompletedSuccessfully /\ console = <<>>)
        /\ result = CompletedSuccessfully
              => (Fulfilled = 1..NumCommands /\ Rejected = {})

C5_Witness ==
    /\ pc = "done"
    /\ workflow.parallel
    /\ promises = <<"fulfilled", "fulfilled", "fulfilled">>
    /\ result = CompletedSuccessfully

\* C6: when every executed command failed (and at least one was executed)
\* the run's result is a failure.
C6_AllFailed ==
    (pc = "done" /\ Len(dispatched) > 0
        /\ \A d \in 1..Len(dispatched) :
               promises[dispatched[d].index + 1] = "rejected")
    => ~result.success

\* the key a command template of the executor's inputs refers to
TemplateKey(t) ==
    CHOOSE k \in ExecKeys : t \in {BracedForm(k), BareForm(k)}

\* C10: the merged map binds a key of the run-time map to its run-time
\* value, a key of the defaults only to its default, and no other key; and
\* every dispatched command carries the value so chosen.
C10_MergePrecedence ==
    Started =>
        /\ \A k \in ExecKeys :
              /\ HasKey(vars, k) =>
                    (HasKey(variables, k)
                        /\ Lookup(variables, k) = Lookup(vars, k))
              /\ (~HasKey(vars, k) /\ HasKey(workflow.variables, k)) =>
                    (HasKey(variables, k)
                        /\ Lookup(variables, k) = Lookup(workflow.variables, k))
              /\ (~HasKey(vars, k) /\ ~HasKey(workflow.variables, k)) =>
                    ~HasKey(variables, k)
        /\ \A d \in 1..Len(dispatched) :
              LET t == workflow.commands[dispatched[d].index + 1]
                  k == TemplateKey(t)
              IN  dispatched[d].command =
                      IF HasKey(vars, k) THEN Lookup(vars, k)
                      ELSE IF HasKey(workflow.variables, k)
                           THEN Lookup(workflow.variables, k)
                           ELSE t

C10_Witness ==
    /\ pc = "done"
    /\ workflow.variables = << <<<<"a">>, <<"x">>>>, <<<<"b">>, <<"x">>>> >>
    /\ vars = << <<<<"a">>, <<"y">>>> >>
    /\ workflow.commands = << <<"$", "{", "a", "}">>, <<"$", "b">> >>
    /\ dispatched = << [index |-> 0, command |-> <<"y">>],
                       [index |-> 1, command |-> <<"x">>] >>

Pending == {j \in 1..Len(promises) : promises[j] = "pending"}

Settled == Rejected \cup Fulfilled

\* C12: running a stored workflow that has no commands fails the call: the
\* value returned is not a success, in either mode.
C12_EmptyWorkflowFails ==
    (pc = "done" /\ Found /\ NumCommands = 0) => ~result.success

\* C13: execute with a name that is not stored returns the not-found failure
\* in its first step: nothing is dispatched and the stored row is unchanged.
C13_NotFoundNoEffect ==
    [][(pc = "idle" /\ name' # StoredName) =>
          /\ pc' = "done"
          /\ result' = [success |-> FALSE, message |-> "Workflow not found",
                        n |-> 0]
          /\ dispatched' = <<>>
          /\ promises' = <<>>
          /\ db' = db]_vars_all

C13_Witness ==
    /\ pc = "done"
    /\ name = "ghost"
    /\ result.message = "Workflow not found"
    /\ db.execution_count = 0
    /\ Len(db.commands) = 2

\* C14: for a stored workflow with at least one command execute never ends
\* by throwing, whichever commands fail: it ends by returning a value, and a
\* failure of a command shows in that value.
C14_NeverThrows ==
    (Found /\ pc # "idle" /\ NumCommands >= 1) =>
        /\ pc \in {"got", "seq_loop", "seq_wait", "par_wait", "done"}
        /\ pc = "done" =>
              /\ result # NoResult
              /\ Rejected # {} => result # CompletedSuccessfully

C14_Witness ==
    /\ pc = "done"
    /\ workflow.parallel
    /\ promises = <<"rejected", "rejected", "rejected">>
    /\ ~result.success

\* C15: no step of execute writes to workflow storage: execution_count (and
\* the rest of the row) is the same after every step of a run as before it.
C15_RunDoesNotWriteStorage ==
    [][pc' \in {"got", "seq_loop", "seq_wait", "par_wait", "done"}
          => db' = db]_vars_all

\* C18: sequential mode: at most one command is in flight, the commands are
\* dispatched in the order of the list, and every command dispatched before
\* the latest one has completed.
C18_SequentialOneAtATime ==
    (Started /\ ~workflow.parallel) =>
        /\ Cardinality(Pending) <= 1
        /\ InOrder
        /\ \A d \in 1..Len(dispatched) - 1 : d \in Settled

C18_Witness ==
    /\ pc = "seq_wait"
    /\ ~workflow.parallel
    /\ promises = <<"rejected", "pending", "none">>
    /\ Len(dispatched) = 2

\* C19: parallel mode: the step that leaves the merge has dispatched all N
\* commands with none of them completed, and the step that returns is taken
\* only when all N have settled.
C19_ParallelJoin ==
    [][(name' = StoredName /\ workflow'.parallel) =>
          /\ (pc = "got" /\ pc' # "got") =>
                /\ Len(dispatched') = Len(workflow'.commands)
                /\ Len(promises') = Len(workflow'.commands)
                /\ \A j \in 1..Len(promises') : promises'[j] = "pending"
          /\ (pc # "done" /\ pc' = "done") =>
                /\ Len(dispatched) = Len(workflow'.commands)
                /\ \A j \in 1..Len(promises) :
                      promises[j] \in {"fulfilled", "rejected"}]_vars_all

C19_Witness ==
    /\ pc = "done"
    /\ workflow.parallel
    /\ promises = <<"fulfilled", "rejected", "fulfilled">>
    /\ first = NoRun

\* C20: continue_on_error has no effect in parallel mode: the second of two
\* parallel runs that differ only in continue_on_error, with the same
\* run-time variables and the same exit of each command, dispatches the
\* same commands and returns the same result as the first.
C20_PolicyIgnoredInParallel ==
    (first # NoRun /\ pc \in {"par_wait", "done"}) =>
        /\ workflow.parallel
        /\ dispatched = first.dispatched
        /\ pc = "done" =>
              /\ promises = first.promises
              /\ result = first.result
              /\ console = first.console

C20_Witness ==
    /\ first # NoRun
    /\ pc = "done"
    /\ workflow.continue_on_error
    /\ vars # <<>>
    /\ promises = <<"rejected", "fulfilled">>
    /\ result = first.result
    /\ ~result.success

----------------------------------------------------------------------------
(* `workflow run <name> --vars ...`: the run case of manageWorkflow *)

MaxArgs == 2

CliKeys == {<<"a">>, <<"b">>}

CliValues == {<<"x">>, <<"y">>}

\* one key=value argument
PairForm(k, v) == k \o <<"=">> \o v

\* the comma form of the usage text, one argument: k1=v1,k2=v2
CommaForm(k1, v1, k2, v2) == PairForm(k1, v1) \o <<",">> \o PairForm(k2, v2)

\* what --vars <vars...> can receive as one argument
CliArgs ==
    {PairForm(k, v) : k \in CliKeys, v \in CliValues}
    \cup {CommaForm(k[1], v[1], k[2], v[2]) :
              k \in {kk \in CliKeys \X CliKeys : kk[1] # kk[2]},
              v \in CliValues \X CliValues}
    \cup {<<"a">>, <<"a", "=">>, <<"=", "x">>}

\* String.prototype.split(separator) for a one-character separator
RECURSIVE Split(_, _)
Split(str, separator) ==
    IF \A j \in 1..Len(str) : str[j] # separator THEN <<str>>
    ELSE LET at == CHOOSE j \in 1..Len(str) :
                       /\ str[j] = separator
                       /\ \A h \in 1..j - 1 : str[h] # separator
         IN  <<SubSeq(str, 1, at - 1)>>
             \o Split(SubSeq(str, at + 1, Len(str)), separator)

\* const [key, value] = v.split("="); if (key && value) variables[key] = value
ParseVar(runVars, v) ==
    LET parts == Split(v, "=")
    IN  IF Len(parts) >= 2 /\ parts[1] # <<>> /\ parts[2] # <<>>
        THEN Spread(runVars, << <<parts[1], parts[2]>> >>)
        ELSE runVars

\* options.vars.forEach(...) from an empty object
RECURSIVE ParseVars(_, _)
ParseVars(runVars, optVars) ==
    IF optVars = <<>> THEN runVars
    ELSE ParseVars(ParseVar(runVars, Head(optVars)), Tail(optVars))

InitCli ==
    /\ db = NoWorkflow
    /\ ExecIdle
    /\ SubstIdle
    /\ StoreIdle
    /\ optionVars \in SeqsUpTo(CliArgs, MaxArgs)
    /\ cliVariables = <<>>
    /\ cpc = "args"
    /\ RestIdle

\* run without a workflow name: "Workflow name is required", return
RunWithoutName ==
    /\ cpc = "args"
    /\ cpc' = "noname"
    /\ UNCHANGED <<optionVars, cliVariables, execVars, substStateVars,
                   storeVars, restVars>>

\* run with a name: build `variables` and hand it to execute
RunWithName ==
    /\ cpc = "args"
    /\ cliVariables' = ParseVars(<<>>, optionVars)
    /\ cpc' = "parsed"
    /\ UNCHANGED <<optionVars, execVars, substStateVars, storeVars,
                   restVars>>

NextCli == RunWithoutName \/ RunWithName

SpecCli == InitCli /\ [][NextCli]_vars_all

----------------------------------------------------------------------------
(* Properties of storage, checked under SpecStore *)

\* C11: a save with an empty command list returns an error and leaves the
\* workflows and workflow_commands tables as they were.
C11_EmptySaveRejected ==
    [][(call'.op = "save" /\ call'.commands = <<>>) =>
          /\ ~ret'.success
          /\ workflows' = workflows
          /\ workflow_commands' = workflow_commands]_vars_all

\* C16: a successful get returns exactly the command list of the last
\* successful save of that name, in the same order, also when the save
\* replaced a workflow of that name.
C16_SaveThenGet ==
    (call.op = "get" /\ ret.success) =>
        ret.workflow.commands = lastSaved[call.name]

C16_Witness ==
    /\ call.op = "get"
    /\ ret.success
    /\ ret.workflow.id = 2
    /\ Cardinality(workflows) = 1
    /\ replaced = 2
    /\ ret.workflow.commands = << <<"$", "{", "a", "}">> >>

\* C25: executionCount counts runs only: a get (the read behind show,
\* duplicate and export as well) leaves every row of the workflows table,
\* its execution_count included, as it was.
C25_GetLeavesCountUnchanged ==
    [][call'.op = "get" => workflows' = workflows]_vars_all

----------------------------------------------------------------------------
(* Properties of the --vars option, checked under SpecCli *)

\* C17: `--vars k1=v1,k2=v2` with distinct keys and values free of ',' and
\* '=' hands execute a map that binds k1 to v1 and k2 to v2.
C17_CommaFormBindsBoth ==
    \A k1 \in CliKeys, k2 \in CliKeys, v1 \in CliValues, v2 \in CliValues :
        (/\ k1 # k2
         /\ cpc = "parsed"
         /\ optionVars = <<CommaForm(k1, v1, k2, v2)>>) =>
            /\ HasKey(cliVariables, k1)
            /\ Lookup(cliVariables, k1) = v1
            /\ HasKey(cliVariables, k2)
            /\ Lookup(cliVariables, k2) = v2


----------------------------------------------------------------------------
(* Further properties of the executor, checked under Spec *)

\* C23: the variables of a run are merged once and read-only afterwards:
\* once merged the map does not change, every command is dispatched as its
\* template substituted against the merge of the stored variables and the
\* run-time map and stays as dispatched, and no step changes the stored
\* variables, the stored command templates, the row execute holds or the
\* caller's map.
C23_VariablesReadOnly ==
    [][/\ Started => variables' = variables
       /\ pc # "idle" => (vars' = vars /\ workflow' = workflow)
       /\ db'.variables = db.variables
       /\ db'.commands = db.commands
       /\ dispatched' # dispatched =>
             /\ SubSeq(dispatched', 1, Len(dispatched)) = dispatched
             /\ \A d \in Len(dispatched) + 1..Len(dispatched') :
                   dispatched'[d].command =
                       replaceVariables(
                           workflow'.commands[dispatched'[d].index + 1],
                           Merge(workflow'.variables, vars'))]_vars_all

C23_Witness ==
    /\ pc = "done"
    /\ ~workflow.parallel
    /\ Len(dispatched) = 2
    /\ Keys(workflow.variables) = {<<"a">>}
    /\ Keys(vars) = {<<"b">>}
    /\ dispatched[1].command # workflow.commands[1]
    /\ dispatched[2].command # workflow.commands[2]
    /\ dispatched[1].command # dispatched[2].command


\* C24: a call of execute eventually returns, and returns once: after the
\* return the result does not change and no command is dispatched.
C24_RunTerminatesOnce ==
    /\ (pc # "idle") ~> (pc = "done")
    /\ [][/\ pc = "done" => UNCHANGED <<pc, result, dispatched>>
          /\ result' # result => pc' = "done"]_vars_all

C24_Witness ==
    /\ pc = "done"
    /\ workflow.parallel
    /\ Len(promises) = 3
    /\ promises[1] = "rejected"
    /\ promises[2] = "fulfilled"
    /\ promises[3] = "rejected"
    /\ ~result.success


----------------------------------------------------------------------------
(* Properties of getDatabase, checked under SpecDb *)

\* C26: every caller of getDatabase receives the one Database object, and
\* receives it with init() completed (connection open, tables created).
C26_NeverUninitialised ==
    \A c \in Callers :
        callers[c].pc = "returned" =>
            /\ callers[c].got = "Database"
            /\ callers[c].stage = "tables"


----------------------------------------------------------------------------
(* Properties of the manager's database handle, checked under SpecMgr *)

\* C27: every operation of a WorkflowManager, the first one on a fresh
\* manager included, finds this.db non-null when it calls the database.
C27_HandleInitialised ==
    \A k \in 1..Len(opLog) : opLog[k].db # "null"


----------------------------------------------------------------------------
(* Properties of the CLI's reports, checked under SpecReport *)

\* C28: for create, show, remove, search and duplicate the CLI prints after
\* the manager's call has settled, and a call that succeeded is not
\* reported with the failure marker.
C28_ReportsSettledOutcome ==
    \A k \in 1..Len(reports) :
        reports[k].action \in UnawaitedActions =>
            /\ reports[k].printedAt # "pending"
            /\ reports[k].call = "success" => reports[k].marker # "failure"


----------------------------------------------------------------------------
(* Properties of the shell cleanup, checked under SpecShell *)

\* C29: a duration-based auto-cleanup deletes only the shell session it was
\* scheduled for, at most once: every job a timer deleted belongs to the
\* session that scheduled the timer, and no timer deleted two jobs; so a
\* session created for the same service after the first one was cleaned up
\* on disconnect is not deleted by the first one's timer.
C29_TimerDeletesOwnSession ==
    \A d \in deletions :
        d.cause = "timer" =>
            /\ d.session = d.timer
            /\ \A e \in deletions :
                  (e.cause = "timer" /\ e.timer = d.timer) => e = d


----------------------------------------------------------------------------
(* Properties of `tasks next`, checked under SpecTasks *)

\* C30: in `tasks next`, choosing Skip makes progress: when at least two
\* tasks are pending, the task presented after Skip is the next pending
\* task in (priority ascending, created_at ascending) order and not the
\* task that was just skipped, and the skipped task stays pending (so that
\* repeated Skip runs through the pending tasks and ends).
C30_SkipMakesProgress ==
    [][(/\ tpc = "prompt"
        /\ Len(shown') = Len(shown) + 1
        /\ shown'[Len(shown')].after = "skip"
        /\ Len(PendingQuery(tasks)) >= 2)
       => /\ shown'[Len(shown')].task = PendingQuery(tasks)[2]
          /\ shown'[Len(shown')].task # shown[Len(shown)].task
          /\ tasks'[shown[Len(shown)].task].status = "pending"]_vars_all

====
